--------------------------- MODULE Spec2Model ---------------------------
(***************************************************************************)
(* Model of the PDFVisualizer controller of pdf-visualizer                 *)
(* (src/unnamed/part_003, class PDFVisualizer): the open/close lifecycle,  *)
(* the page-render queue, zoom, print and download guards.                 *)
(*                                                                         *)
(* Every handler of the class is one action.  The suspension points of     *)
(* the async methods (getDocument, getPage, page.render, fetch, printJS,   *)
(* animationend) split a method into the action that runs up to the await  *)
(* and the action that runs its continuation.                              *)
(***************************************************************************)
EXTENDS Integers, Sequences, FiniteSets, TLC

(***************************************************************************)
(* IEEE-754 doubles in [0.25, 4).  A double d is the pair <<hi, lo>> with  *)
(* d = (hi * 2^27 + lo) * 2^-55, 0 <= lo < 2^27.  The JavaScript numbers   *)
(* this.scale takes are computed with the rounding of the hardware, so     *)
(* that 1.0 - 0.1 - 0.1 - 0.1 is 0.7000000000000001 here as in the engine. *)
(***************************************************************************)
Limb == 134217728

D_0_1 == <<26843545, 80530637>>

D_0_5 == <<134217728, 0>>

D_1_0 == <<268435456, 0>>

D_2_0 == <<536870912, 0>>

D_3_0 == <<805306368, 0>>

DLess(a, b) == a[1] < b[1] \/ (a[1] = b[1] /\ a[2] < b[2])

DMin(a, b) == IF DLess(b, a) THEN b ELSE a

DMax(a, b) == IF DLess(a, b) THEN b ELSE a

\* the spacing of the doubles around the exact value x, in units of 2^-55
Ulp(x) ==
  IF DLess(x, D_0_5) THEN 2
  ELSE IF DLess(x, D_1_0) THEN 4
  ELSE IF DLess(x, D_2_0) THEN 8
  ELSE 16

\* round the exact value x to the nearest double, ties to even
DRound(x) ==
  LET q    == Ulp(x)
      r    == x[2] % q
      down == <<x[1], x[2] - r>>
      upLo == x[2] - r + q
      up   == IF upLo = Limb THEN <<x[1] + 1, 0>> ELSE <<x[1], upLo>>
      odd  == ((x[2] \div q) % 2) = 1
  IN  IF 2 * r < q THEN down
      ELSE IF 2 * r > q THEN up
      ELSE IF odd THEN up ELSE down

\* a + b of two doubles, as the engine computes it
DAdd(a, b) ==
  LET lo == a[2] + b[2]
  IN  DRound(IF lo >= Limb THEN <<a[1] + b[1] + 1, lo - Limb>>
                           ELSE <<a[1] + b[1], lo>>)

\* a - b of two doubles (a >= b), as the engine computes it
DSub(a, b) ==
  LET lo == a[2] - b[2]
  IN  DRound(IF lo < 0 THEN <<a[1] - b[1] - 1, lo + Limb>>
                       ELSE <<a[1] - b[1], lo>>)

\* the step of onZoomIn without its Math.min
ScaleUp_NoClamp(s) == DAdd(s, D_0_1)

\* Math.min(3.0, scale + 0.1)
ScaleUp(s) == DMin(D_3_0, DAdd(s, D_0_1))

\* Math.max(0.5, scale - 0.1)
ScaleDown(s) == DMax(D_0_5, DSub(s, D_0_1))

\* Math.round(scale * 100), the number updateZoomInfo() shows: the scale in
\* units of 2^-14, times 100, rounded half up
Percent(s) ==
  LET a == s[1] \div 16384
      b == s[1] % 16384
      n == a * 100 + (b * 100) \div 16384
  IN  (n + 8192) \div 16384


(***************************************************************************)
(* Bounds of the model.                                                    *)
(***************************************************************************)
\* accepted init() calls in one behaviour
MaxOpens == 2

\* accepted navigation, zoom, queueRenderPage, print and download calls in
\* one behaviour
MaxOps == 2

\* pages of the largest document the engine returns
MaxPages == 2

\* steps of one behaviour in which a hook throws
MaxThrows == 1

\* renders the host lets be outstanding before its next request, in the
\* zoom specification
MaxInFlight == 1

\* the pointer is at x = 0..MaxCoord, and the content frame is moved to
\* left = -MaxCoord..MaxCoord
MaxCoord == 2

\* the scrollable range of #pdf-body: scrollWidth - clientWidth
MaxScroll == 3

\* offsetLeft of the content frame where the layout centres it
AutoLeft == 1

(***************************************************************************)
(* Inputs.                                                                 *)
(***************************************************************************)
Urls == {"a.pdf"}

\* the url of a configuration that names no document
NoUrl == ""

AllUrls == Urls \cup {NoUrl}

\* elements of the host page that can hold the focus while no overlay is up
HostElements == {"body", "link"}

\* the options init() copies into the instance (lines 351-358); the three
\* title strings are one field
DefaultOpts ==
  [title |-> "default", isMoveable |-> TRUE, isClosingOnEscape |-> TRUE,
   isClosingOnClickOutside |-> TRUE, isDownloadingOnClick |-> TRUE,
   isPrintingOnClick |-> TRUE]

LockedOpts ==
  [title |-> "custom", isMoveable |-> FALSE, isClosingOnEscape |-> FALSE,
   isClosingOnClickOutside |-> FALSE, isDownloadingOnClick |-> FALSE,
   isPrintingOnClick |-> FALSE]

\* the configuration objects passed to init(): options, and whether the five
\* hook functions are given
Configs ==
  { [opts |-> DefaultOpts, hooks |-> TRUE],
    [opts |-> LockedOpts, hooks |-> FALSE] }

NoDouble == <<0, 0>>

(***************************************************************************)
(* State.                                                                  *)
(***************************************************************************)
VARIABLES
  \* fields of the PDFVisualizer instance
  url, pdfDoc, pageNum, pageRendering, pageNumPending, scale,
  isOpening, isClosing, isDownloading, isPrinting,
  isDraggingHeader, isDraggingScroll,
  startX, scrollLeft, offsetX,
  previousFocusedElement, opts,
  modal,          \* this.modal / this.container: 0 = null, k = the overlay built by the k-th accepted init
  \* the document
  mounted,        \* overlays that are children of document.body
  wired,          \* listeners init() put on the current overlay
  ui,             \* controls and texts of the current overlay
  canvas,         \* <<page, scale>> last drawn on the surface, page 0 = blank
  activeElement,  \* document.activeElement
  closeListeners, \* animationend listeners close() has added, with their overlay
  animating,      \* the overlay whose exit animation is running, 0 = none
  bodyScrollLeft, \* scrollLeft of #pdf-body
  styleLeft,      \* style.left of the content frame: set or not, and its px
  \* the mouse
  pointerAt,      \* the part of the page under the pointer
  pointerX,       \* its x coordinate
  pressed,        \* where the button went down, "none" with the button up
  \* the engine, the network and the print pipeline
  docs,           \* docs[h]: the document behind handle h: its pages, the
                  \* destroy() calls on it, the open that loaded it
  loads,          \* getDocument() tasks not yet settled
  renders,        \* renderPage() calls not yet settled
  printTask, fetchTask,
  \* history
  opens,          \* accepted init() calls
  hookLog,        \* hooks invoked since the last accepted init()
  budget,         \* what the behaviour may still do: opens, ops, throws, waits,
                  \* zooms, renders in flight
  waiting,        \* the call the host is waiting on, having seen it return
                  \* because of a phase or operation that passes: "open" (init
                  \* during Closing), "close" (close during a load, render,
                  \* print or download), "none"
  closes,         \* accepted close() calls
  teardowns,      \* runs of the animationend handler of close()
  zoomRun         \* the accepted zoom calls since scale was set to 1.0: how
                  \* many, when they were all onZoomIn or all onZoomOut

fields == <<url, pdfDoc, pageNum, pageRendering, pageNumPending, scale,
            isOpening, isClosing, isDownloading, isPrinting,
            isDraggingHeader, isDraggingScroll, startX, scrollLeft, offsetX,
            previousFocusedElement, opts, modal>>

dom == <<mounted, wired, ui, canvas, activeElement, closeListeners, animating,
         bodyScrollLeft, styleLeft>>

mouse == <<pointerAt, pointerX, pressed>>

env == <<docs, loads, renders, printTask, fetchTask>>

hist == <<opens, hookLog, budget, waiting, closes, teardowns, zoomRun>>

vars == <<fields, dom, env, hist, mouse>>

\* no zoom call since scale was set to 1.0
NoRun == [kind |-> "none", n |-> 0]

\* the run after one more accepted call of the kind "in" or "out"
RunAfter(run, kind) ==
  IF run.kind \in {"none", kind} THEN [kind |-> kind, n |-> run.n + 1]
  ELSE [kind |-> "mixed", n |-> 0]

\* the controls as init() writes them into the overlay (lines 368-396)
FreshUi(o) ==
  [prevDisabled |-> TRUE, nextDisabled |-> TRUE,
   zoomInDisabled |-> TRUE, zoomOutDisabled |-> TRUE,
   downloadDisabled |-> ~o.isDownloadingOnClick,
   printDisabled |-> ~o.isPrintingOnClick,
   pageNumText |-> 0, pageCountText |-> 0,
   zoomInfo |-> 100,
   preloaderShown |-> TRUE, preloaderText |-> "loading",
   closedClass |-> FALSE]

NoUi == FreshUi(DefaultOpts)

\* style.left of a content frame that was never moved
NoLeft == [set |-> FALSE, px |-> 0]

NoWired == [escape |-> FALSE, clickOutside |-> FALSE, moveable |-> FALSE, hooks |-> FALSE]

\* the state the constructor leaves (lines 242-276)
Constructed ==
  /\ url = ""
  /\ pdfDoc = 0
  /\ pageNum = 1
  /\ pageRendering = FALSE
  /\ pageNumPending = 0
  /\ scale = D_1_0
  /\ isOpening = FALSE
  /\ isClosing = FALSE
  /\ isDownloading = FALSE
  /\ isPrinting = FALSE
  /\ isDraggingHeader = FALSE
  /\ isDraggingScroll = FALSE
  /\ startX = 0
  /\ scrollLeft = 0
  /\ offsetX = 0
  /\ previousFocusedElement = "null"
  /\ opts = DefaultOpts
  /\ modal = 0
  /\ mounted = {}
  /\ wired = NoWired
  /\ ui = NoUi
  /\ canvas = <<0, NoDouble>>
  /\ activeElement = "body"
  /\ closeListeners = <<>>
  /\ animating = 0
  /\ bodyScrollLeft = 0
  /\ styleLeft = NoLeft
  /\ pointerAt = "outside"
  /\ pointerX = 0
  /\ pressed = "none"
  /\ docs = <<>>
  /\ loads = {}
  /\ renders = <<>>
  /\ printTask = FALSE
  /\ fetchTask = FALSE
  /\ opens = 0
  /\ hookLog = <<>>
  /\ waiting = "none"
  /\ closes = 0
  /\ teardowns = 0
  /\ zoomRun = NoRun

(***************************************************************************)
(* Hooks.  A hook is invoked only when it is a function; it returns or     *)
(* throws.  Logged(log, given, name, owner) is the log after the call.     *)
(***************************************************************************)
Logged(log, given, name, owner) ==
  IF given THEN Append(log, <<name, owner>>) ELSE log

\* did the call of a hook throw: only a hook that was given can
Threw(given, t) == given /\ t /\ budget.throws > 0

\* the budget after a step in which a hook threw or not
AfterThrow(b, threw) == IF threw THEN [b EXCEPT !.throws = @ - 1] ELSE b

\* the budget after an accepted call of the overlay's controls
AfterOp(b) == [b EXCEPT !.ops = @ - 1]

\* an accepted zoom call is one of the ops, unless the behaviour lets the host
\* zoom without limit: the clamps keep the scales finitely many
MayZoom == budget.zooms \/ budget.ops > 0

AfterZoom(b) == IF b.zooms THEN b ELSE AfterOp(b)

\* a call returned early: the host starts waiting on it when blocked holds
Noted(blocked) == blocked /\ budget.waits > 0

AfterNote(b, blocked) == IF Noted(blocked) THEN [b EXCEPT !.waits = @ - 1] ELSE b

\* the catch block of init() (lines 483-488): onError, then the inline error
\* text in the preloader of this.container; a null container or a throwing
\* onError ends the handler before the text is written
CatchUi(u, m, given, tErr) ==
  IF Threw(given, tErr) \/ m = 0 THEN u
  ELSE [u EXCEPT !.preloaderText = "error"]

RemoveAt(s, i) == [j \in 1..(Len(s) - 1) |-> IF j < i THEN s[j] ELSE s[j + 1]]

(***************************************************************************)
(* Queries (lines 1024-1036) and the lifecycle phase they stand for.       *)
(***************************************************************************)
\* a query that reports the viewer closed as soon as close() is accepted
isOpen_NotWhileClosing == isOpening /\ ~isClosing

isOpen == isOpening

isClosed == ~isOpening

\* the getDocument() task or first renderPage() of the current overlay is
\* outstanding: loadPDF() of the current open has not returned
Loading ==
  \/ \E l \in loads : l.sess = modal
  \/ \E i \in 1..Len(renders) : renders[i].sess = modal /\ modal # 0

Phase ==
  IF ~isOpening THEN "Closed"
  ELSE IF isClosing THEN "Closing"
  ELSE IF Loading THEN "Opening"
  ELSE "Open"

\* renderPage() calls started and not settled
InFlight == Len(renders)

(***************************************************************************)
(* init(config) with open() and the first half of loadPDF()                *)
(* (lines 315-489, 908-932, 544-551).                                      *)
(***************************************************************************)
\* a guard that lets a second init() through once the viewer is Open or
\* Opening, and one that lets it through during the exit animation
InitRejected_OnlyWhileClosing == isOpening /\ isClosing

InitRejected_NotWhileClosing == isOpening /\ ~isClosing

\* line 348: the call returns at once
InitRejected == isOpening

init(cfg, u, focused, tBefore, tErr) ==
  \/ /\ InitRejected
     /\ waiting' = IF Noted(isClosing) THEN "open" ELSE waiting
     /\ budget' = AfterNote(budget, isClosing)
     /\ UNCHANGED <<fields, mouse, dom, env, opens, hookLog, closes, teardowns, zoomRun>>
  \/ /\ ~InitRejected
     /\ waiting' = "none"
     /\ budget.opens > 0
     /\ opens' = opens + 1
     /\ budget' = AfterThrow([budget EXCEPT !.opens = @ - 1], Threw(cfg.hooks, tBefore))
     /\ isOpening' = TRUE
     /\ opts' = cfg.opts
     /\ IF Threw(cfg.hooks, tBefore)
        THEN \* onBeforeOpen threw: the catch block runs on the old container
             /\ hookLog' = Logged(<<<<"onBeforeOpen", "config">>>>, cfg.hooks, "onError", "config")
             /\ ui' = CatchUi(ui, modal, cfg.hooks, tErr)
             /\ UNCHANGED <<url, pdfDoc, pageNum, pageRendering, pageNumPending, scale,
                            isClosing, isDownloading, isPrinting, isDraggingHeader,
                            isDraggingScroll, startX, scrollLeft, offsetX, mouse, previousFocusedElement, modal>>
             /\ UNCHANGED <<mounted, wired, bodyScrollLeft, styleLeft, canvas, activeElement, closeListeners, animating>>
             /\ UNCHANGED env
        ELSE /\ hookLog' = Logged(<<>>, cfg.hooks, "onBeforeOpen", "config")
             \* a new overlay with its listeners (lines 366-476)
             /\ modal' = opens + 1
             /\ ui' = FreshUi(cfg.opts)
             /\ canvas' = <<0, NoDouble>>
             /\ wired' = [escape |-> cfg.opts.isClosingOnEscape,
                          clickOutside |-> cfg.opts.isClosingOnClickOutside,
                          moveable |-> cfg.opts.isMoveable,
                          hooks |-> cfg.hooks]
             /\ closeListeners' = SelectSeq(closeListeners, LAMBDA c : c.on \in mounted)
             /\ bodyScrollLeft' = 0
             /\ styleLeft' = NoLeft
             \* open() (lines 914-920)
             /\ previousFocusedElement' = focused
             /\ mounted' = mounted \cup {opens + 1}
             /\ activeElement' = "overlay"
             \* loadPDF() up to the await (lines 546-551)
             /\ pageRendering' = TRUE
             /\ url' = u
             /\ loads' = loads \cup {[sess |-> opens + 1, url |-> u, hooks |-> cfg.hooks]}
             /\ UNCHANGED <<pdfDoc, pageNum, pageNumPending, scale, isClosing,
                            isDownloading, isPrinting, isDraggingHeader, isDraggingScroll, startX, scrollLeft, offsetX, mouse>>
             /\ UNCHANGED <<docs, renders, printTask, fetchTask, animating>>
     /\ UNCHANGED <<closes, teardowns, zoomRun>>

(***************************************************************************)
(* renderPage(num) up to its first await (line 574): a getPage() task on   *)
(* this.pdfDoc.  With this.pdfDoc null the call rejects at once.           *)
(***************************************************************************)
StartRender(rs, doc, num) ==
  IF doc = 0 THEN rs
  ELSE Append(rs, [num |-> num, doc |-> doc, stage |-> "getPage", sess |-> 0,
                   hooks |-> FALSE, vscale |-> NoDouble, on |-> 0])

(***************************************************************************)
(* The engine settles getDocument(): the rest of loadPDF() (lines 551-565) *)
(***************************************************************************)
LoadResolve(l, n) ==
  /\ l \in loads
  /\ loads' = loads \ {l}
  /\ pdfDoc' = Len(docs) + 1
  /\ docs' = Append(docs, [pages |-> n, destroyed |-> 0, sess |-> l.sess])
  /\ ui' = [ui EXCEPT !.pageCountText = n, !.preloaderShown = FALSE]
  \* await this.renderPage(this.pageNum)
  /\ renders' = Append(renders, [num |-> pageNum, doc |-> Len(docs) + 1,
                                 stage |-> "getPage", sess |-> l.sess,
                                 hooks |-> l.hooks, vscale |-> NoDouble, on |-> 0])
  /\ UNCHANGED <<url, pageNum, pageRendering, pageNumPending, scale, isOpening,
                 isClosing, isDownloading, isPrinting, isDraggingHeader,
                 isDraggingScroll, startX, scrollLeft, offsetX, mouse, previousFocusedElement, opts, modal>>
  /\ UNCHANGED <<mounted, wired, bodyScrollLeft, styleLeft, canvas, activeElement, closeListeners, animating>>
  /\ UNCHANGED <<printTask, fetchTask>>
  /\ UNCHANGED hist

\* the load fails: catch and finally of loadPDF(), catch of open(), catch of
\* init() (lines 560-564, 929-931, 483-488)
LoadReject(l, tErr) ==
  /\ l \in loads
  /\ loads' = loads \ {l}
  /\ pageRendering' = FALSE
  /\ hookLog' = Logged(hookLog, l.hooks, "onError", "config")
  /\ ui' = CatchUi(ui, modal, l.hooks, tErr)
  /\ budget' = AfterThrow(budget, Threw(l.hooks, tErr))
  /\ UNCHANGED <<url, pdfDoc, pageNum, pageNumPending, scale, isOpening,
                 isClosing, isDownloading, isPrinting, isDraggingHeader,
                 isDraggingScroll, startX, scrollLeft, offsetX, mouse, previousFocusedElement, opts, modal>>
  /\ UNCHANGED <<mounted, wired, bodyScrollLeft, styleLeft, canvas, activeElement, closeListeners, animating>>
  /\ UNCHANGED <<docs, renders, printTask, fetchTask>>
  /\ UNCHANGED <<opens, waiting, closes, teardowns, zoomRun>>

(***************************************************************************)
(* The engine settles the tasks of a renderPage() call (lines 574-598).    *)
(***************************************************************************)
\* getPage() resolved: the viewport is taken at the scale of this moment,
\* the surface of the current overlay is resized (which blanks it) and
\* page.render() starts on its context
GetPageResolve(i) ==
  /\ i \in 1..Len(renders)
  /\ renders[i].stage = "getPage"
  /\ renders' = [renders EXCEPT ![i].stage = "render", ![i].vscale = scale,
                                 ![i].on = modal]
  /\ canvas' = <<0, scale>>
  /\ UNCHANGED <<fields, mouse>>
  /\ UNCHANGED <<mounted, wired, bodyScrollLeft, styleLeft, ui, activeElement, closeListeners, animating>>
  /\ UNCHANGED <<docs, loads, printTask, fetchTask>>
  /\ UNCHANGED hist

\* updateUI() (lines 835-840)
updateUI(u, pn, np, sc) ==
  [u EXCEPT !.prevDisabled = (pn <= 1),
            !.nextDisabled = (pn >= np),
            !.zoomInDisabled = ~DLess(sc, D_3_0),
            !.zoomOutDisabled = ~DLess(D_0_5, sc)]

\* line 590: the render is over
FlagAfterRender(flag) == FALSE

\* page.render() resolved: lines 590-597, and for the first render of a load
\* the rest of loadPDF() and of open() (lines 563, 926-928) with the catch
\* of init() when onAfterOpen throws
RenderResolve(i, tAfter, tErr) ==
  /\ i \in 1..Len(renders)
  /\ renders[i].stage = "render"
  /\ LET r    == renders[i]
         rest == RemoveAt(renders, i)
         u1   == updateUI([ui EXCEPT !.pageNumText = r.num], pageNum,
                          docs[pdfDoc].pages, scale)
         log1 == Logged(hookLog, r.hooks /\ r.sess # 0, "onAfterOpen", "config")
         thr  == r.sess # 0 /\ Threw(r.hooks, tAfter)
     IN  /\ pageRendering' = FlagAfterRender(pageRendering)
         /\ renders' = IF pageNumPending # 0
                       THEN StartRender(rest, pdfDoc, pageNumPending)
                       ELSE rest
         /\ pageNumPending' = 0
         \* the page is drawn on the context taken at line 582: the canvas
         \* of the overlay of that moment
         /\ canvas' = IF r.on = modal THEN <<r.num, r.vscale>> ELSE canvas
         /\ hookLog' = IF thr THEN Logged(log1, r.hooks, "onError", "config") ELSE log1
         /\ ui' = IF thr THEN CatchUi(u1, modal, r.hooks, tErr) ELSE u1
         /\ budget' = AfterThrow(budget, thr)
  /\ UNCHANGED <<url, pdfDoc, pageNum, scale, isOpening, isClosing, isDownloading,
                 isPrinting, isDraggingHeader, isDraggingScroll, startX, scrollLeft, offsetX, mouse,
                 previousFocusedElement, opts, modal>>
  /\ UNCHANGED <<mounted, wired, bodyScrollLeft, styleLeft, activeElement, closeListeners, animating>>
  /\ UNCHANGED <<docs, loads, printTask, fetchTask>>
  /\ UNCHANGED <<opens, waiting, closes, teardowns, zoomRun>>

\* getPage() or page.render() rejected.  The first render of a load is
\* awaited by loadPDF(): its finally clears the flag and init() reports the
\* error; any other renderPage() promise has no handler
RenderReject(i, tErr) ==
  /\ i \in 1..Len(renders)
  /\ LET r == renders[i]
     IN  /\ renders' = RemoveAt(renders, i)
         /\ IF r.sess # 0
            THEN /\ pageRendering' = FALSE
                 /\ hookLog' = Logged(hookLog, r.hooks, "onError", "config")
                 /\ ui' = CatchUi(ui, modal, r.hooks, tErr)
                 /\ budget' = AfterThrow(budget, Threw(r.hooks, tErr))
            ELSE UNCHANGED <<pageRendering, hookLog, ui, budget>>
  /\ UNCHANGED <<url, pdfDoc, pageNum, pageNumPending, scale, isOpening, isClosing,
                 isDownloading, isPrinting, isDraggingHeader, isDraggingScroll, startX, scrollLeft, offsetX, mouse,
                 previousFocusedElement, opts, modal>>
  /\ UNCHANGED <<mounted, wired, bodyScrollLeft, styleLeft, canvas, activeElement, closeListeners, animating>>
  /\ UNCHANGED <<docs, loads, printTask, fetchTask>>
  /\ UNCHANGED <<opens, waiting, closes, teardowns, zoomRun>>

(***************************************************************************)
(* queueRenderPage, navigation and zoom (lines 606-694).  The handlers are *)
(* wired to the controls of the overlay, so they run while it is mounted.  *)
(***************************************************************************)
Shown == modal # 0 /\ modal \in mounted

\* line 607: the request goes to the pending slot
QueueBusy == pageRendering

\* queueRenderPage(num) as a step on the render state
Queue(num) ==
  IF QueueBusy
  THEN /\ pageNumPending' = num
       /\ UNCHANGED <<renders, pageRendering>>
  ELSE /\ Len(renders) < budget.flight
       /\ renders' = StartRender(renders, pdfDoc, num)
       /\ UNCHANGED <<pageNumPending, pageRendering>>

queueRenderPage(num) ==
  /\ Shown
  /\ pdfDoc # 0
  /\ num \in 1..docs[pdfDoc].pages
  /\ budget.ops > 0
  /\ budget' = AfterOp(budget)
  /\ Queue(num)
  /\ UNCHANGED <<url, pdfDoc, pageNum, scale, isOpening, isClosing, isDownloading,
                 isPrinting, isDraggingHeader, isDraggingScroll, startX, scrollLeft, offsetX, mouse,
                 previousFocusedElement, opts, modal>>
  /\ UNCHANGED dom
  /\ UNCHANGED <<docs, loads, printTask, fetchTask>>
  /\ UNCHANGED <<opens, hookLog, waiting, closes, teardowns, zoomRun>>

\* the handlers without their test of the flag
NavRejected_Never == FALSE

\* lines 627, 646, 666, 687
NavRejected == pageRendering

onPrevPage ==
  /\ Shown
  /\ IF NavRejected \/ pageNum <= 1 THEN UNCHANGED vars
     ELSE /\ budget.ops > 0
          /\ budget' = AfterOp(budget)
          /\ pageNum' = pageNum - 1
          /\ Queue(pageNum - 1)
          /\ UNCHANGED <<url, pdfDoc, scale, isOpening, isClosing, isDownloading,
                         isPrinting, isDraggingHeader, isDraggingScroll, startX, scrollLeft, offsetX, mouse,
                         previousFocusedElement, opts, modal>>
          /\ UNCHANGED dom
          /\ UNCHANGED <<docs, loads, printTask, fetchTask>>
          /\ UNCHANGED <<opens, hookLog, waiting, closes, teardowns, zoomRun>>

\* with this.pdfDoc null line 648 throws and nothing changes
onNextPage ==
  /\ Shown
  /\ IF NavRejected \/ pdfDoc = 0 THEN UNCHANGED vars
     ELSE IF pageNum >= docs[pdfDoc].pages THEN UNCHANGED vars
     ELSE /\ budget.ops > 0
          /\ budget' = AfterOp(budget)
          /\ pageNum' = pageNum + 1
          /\ Queue(pageNum + 1)
          /\ UNCHANGED <<url, pdfDoc, scale, isOpening, isClosing, isDownloading,
                         isPrinting, isDraggingHeader, isDraggingScroll, startX, scrollLeft, offsetX, mouse,
                         previousFocusedElement, opts, modal>>
          /\ UNCHANGED dom
          /\ UNCHANGED <<docs, loads, printTask, fetchTask>>
          /\ UNCHANGED <<opens, hookLog, waiting, closes, teardowns, zoomRun>>

\* the frame of an accepted zoom: the new scale, the render request and
\* updateZoomInfo() (lines 668-670, 690-692)
Zoom(s, kind) ==
  /\ MayZoom
  /\ budget' = AfterZoom(budget)
  /\ zoomRun' = RunAfter(zoomRun, kind)
  /\ scale' = s
  /\ Queue(pageNum)
  /\ ui' = [ui EXCEPT !.zoomInfo = Percent(s)]
  /\ UNCHANGED <<url, pdfDoc, pageNum, isOpening, isClosing, isDownloading,
                 isPrinting, isDraggingHeader, isDraggingScroll, startX, scrollLeft, offsetX, mouse,
                 previousFocusedElement, opts, modal>>
  /\ UNCHANGED <<mounted, wired, bodyScrollLeft, styleLeft, canvas, activeElement, closeListeners, animating>>
  /\ UNCHANGED <<docs, loads, printTask, fetchTask>>
  /\ UNCHANGED <<opens, hookLog, waiting, closes, teardowns>>

onZoomIn ==
  /\ Shown
  /\ IF NavRejected \/ ~DLess(scale, D_3_0) THEN UNCHANGED vars
     ELSE Zoom(ScaleUp(scale), "in")

onZoomOut ==
  /\ Shown
  /\ IF NavRejected \/ ~DLess(D_0_5, scale) THEN UNCHANGED vars
     ELSE Zoom(ScaleDown(scale), "out")

(***************************************************************************)
(* Print and download (lines 721-805).                                     *)
(***************************************************************************)
\* a switch that is never looked at
OptionOff_Ignored(enabled) == FALSE

\* lines 722, 767: the operation is switched off by the configuration
OptionOff(enabled) == ~enabled

\* a guard that lets a print or download start during a download
BusyRejected_NotWhileDownloading == pageRendering \/ isClosing \/ isPrinting

\* printJS() throws before it starts anything when it is given no printable
\* (lines 122-123); onPrint() has set the flag by then and has no handler
PrintThrows(u) == u = NoUrl

\* lines 724, 769
BusyRejected == pageRendering \/ isClosing \/ isDownloading \/ isPrinting

onPrint ==
  /\ Shown
  /\ IF OptionOff(opts.isPrintingOnClick) \/ BusyRejected THEN UNCHANGED vars
     ELSE /\ budget.ops > 0
          /\ budget' = AfterOp(budget)
          /\ isPrinting' = TRUE
          /\ ui' = [ui EXCEPT !.printDisabled = TRUE]
          /\ printTask' = ~PrintThrows(url)
          /\ UNCHANGED <<url, pdfDoc, pageNum, pageRendering, pageNumPending, scale,
                         isOpening, isClosing, isDownloading, isDraggingHeader,
                         isDraggingScroll, startX, scrollLeft, offsetX, mouse, previousFocusedElement, opts, modal>>
          /\ UNCHANGED <<mounted, wired, bodyScrollLeft, styleLeft, canvas, activeElement, closeListeners, animating>>
          /\ UNCHANGED <<docs, loads, renders, fetchTask>>
          /\ UNCHANGED <<opens, hookLog, waiting, closes, teardowns, zoomRun>>

\* onLoadingEnd or onError of the print pipeline (lines 738-748)
PrintSettle ==
  /\ printTask
  /\ printTask' = FALSE
  /\ isPrinting' = FALSE
  /\ ui' = [ui EXCEPT !.printDisabled = FALSE]
  /\ UNCHANGED <<url, pdfDoc, pageNum, pageRendering, pageNumPending, scale,
                 isOpening, isClosing, isDownloading, isDraggingHeader,
                 isDraggingScroll, startX, scrollLeft, offsetX, mouse, previousFocusedElement, opts, modal>>
  /\ UNCHANGED <<mounted, wired, bodyScrollLeft, styleLeft, canvas, activeElement, closeListeners, animating>>
  /\ UNCHANGED <<docs, loads, renders, fetchTask>>
  /\ UNCHANGED hist

onDownload ==
  /\ Shown
  /\ IF OptionOff(opts.isDownloadingOnClick) \/ BusyRejected THEN UNCHANGED vars
     ELSE /\ budget.ops > 0
          /\ budget' = AfterOp(budget)
          /\ isDownloading' = TRUE
          /\ ui' = [ui EXCEPT !.downloadDisabled = TRUE]
          /\ fetchTask' = TRUE
          /\ UNCHANGED <<url, pdfDoc, pageNum, pageRendering, pageNumPending, scale,
                         isOpening, isClosing, isPrinting, isDraggingHeader,
                         isDraggingScroll, startX, scrollLeft, offsetX, mouse, previousFocusedElement, opts, modal>>
          /\ UNCHANGED <<mounted, wired, bodyScrollLeft, styleLeft, canvas, activeElement, closeListeners, animating>>
          /\ UNCHANGED <<docs, loads, renders, printTask>>
          /\ UNCHANGED <<opens, hookLog, waiting, closes, teardowns, zoomRun>>

\* fetch() resolved or rejected: the rest of the try, the catch, the finally
\* (lines 783-804)
FetchSettle ==
  /\ fetchTask
  /\ fetchTask' = FALSE
  /\ isDownloading' = FALSE
  /\ ui' = [ui EXCEPT !.downloadDisabled = FALSE]
  /\ UNCHANGED <<url, pdfDoc, pageNum, pageRendering, pageNumPending, scale,
                 isOpening, isClosing, isPrinting, isDraggingHeader,
                 isDraggingScroll, startX, scrollLeft, offsetX, mouse, previousFocusedElement, opts, modal>>
  /\ UNCHANGED <<mounted, wired, bodyScrollLeft, styleLeft, canvas, activeElement, closeListeners, animating>>
  /\ UNCHANGED <<docs, loads, renders, printTask>>
  /\ UNCHANGED hist

(***************************************************************************)
(* close(hooks) (lines 944-1016).                                          *)
(***************************************************************************)
\* the guard of line 952 without its isClosing test, and without its
\* isPrinting test
CloseRejected_NotWhileClosing ==
  ~isOpening \/ pageRendering \/ isDownloading \/ isPrinting

CloseRejected_NotWhilePrinting ==
  ~isOpening \/ pageRendering \/ isClosing \/ isDownloading

\* lines 949 and 952
CloseRejected ==
  ~isOpening \/ pageRendering \/ isClosing \/ isDownloading \/ isPrinting

\* the callers of close(): the host, and the three listeners init() wires
\* with the hooks of its configuration (lines 406-409, 450-473)
CloseSources == {"api", "button", "escape", "backdrop"}

CanTrigger(src) ==
  CASE src = "api" -> TRUE
    [] src = "button" -> Shown
    [] src = "escape" -> Shown /\ wired.escape /\ activeElement \notin HostElements
    [] src = "backdrop" -> Shown /\ wired.clickOutside

\* a close() that runs the hooks of the configuration whoever calls it
HooksOf_AlwaysConfig(src, apiHooks) == wired.hooks

\* whether the onBeforeClose/onAfterClose pair reaches close(): the three
\* listeners pass the pair of the configuration they were wired with
\* (lines 406-409, 454-457, 467-470), the host the pair of its own call
HooksOf(src, apiHooks) == IF src = "api" THEN apiHooks ELSE wired.hooks

\* the animationend listener close() adds to this.container (line 962)
Listener(given, owner) == [on |-> modal, given |-> given, owner |-> owner]

\* lines 949-952 returned although the overlay is up and not closing: an
\* operation is in the way
CloseBlocked == isOpening /\ ~isClosing /\ (pageRendering \/ isDownloading \/ isPrinting)

close(src, apiHooks, tBefore) ==
  /\ CanTrigger(src)
  /\ LET given == HooksOf(src, apiHooks)
         owner == IF src = "api" THEN "call" ELSE "config"
     IN  IF CloseRejected
         THEN /\ waiting' = IF Noted(CloseBlocked) THEN "close" ELSE waiting
              /\ budget' = AfterNote(budget, CloseBlocked)
              /\ UNCHANGED <<fields, mouse, dom, env, opens, hookLog, closes, teardowns, zoomRun>>
         ELSE IF Threw(given, tBefore)
         THEN \* onBeforeClose threw (line 956)
              /\ hookLog' = Logged(hookLog, given, "onBeforeClose", owner)
              /\ budget' = AfterThrow(budget, TRUE)
              /\ UNCHANGED <<fields, mouse, dom, env, opens, waiting, closes, teardowns, zoomRun>>
         ELSE /\ hookLog' = Logged(hookLog, given, "onBeforeClose", owner)
              /\ waiting' = "none"
              /\ isClosing' = TRUE
              /\ closes' = closes + 1
              /\ IF modal = 0
                 THEN \* this.container is null: line 960 throws
                      UNCHANGED <<ui, closeListeners, animating>>
                 ELSE /\ ui' = [ui EXCEPT !.closedClass = TRUE]
                      /\ closeListeners' = Append(closeListeners, Listener(given, owner))
                      /\ animating' = IF modal \in mounted THEN modal ELSE animating
              /\ UNCHANGED <<url, pdfDoc, pageNum, pageRendering, pageNumPending, scale,
                             isOpening, isDownloading, isPrinting, isDraggingHeader,
                             isDraggingScroll, startX, scrollLeft, offsetX, mouse, previousFocusedElement, opts, modal>>
              /\ UNCHANGED <<mounted, wired, bodyScrollLeft, styleLeft, canvas, activeElement>>
              /\ UNCHANGED env
              /\ UNCHANGED <<opens, budget, teardowns, zoomRun>>

\* the focus kept by a teardown that does not restore it
FocusAfterClose_NoRestore(prev, active, gone) ==
  IF active \notin HostElements THEN "body" ELSE active

\* focus after previousFocusedElement?.focus() (line 998); the overlay that
\* held the focus has just left the document, and focus() does nothing on
\* an element the host has removed meanwhile (gone)
FocusAfterClose(prev, active, gone) ==
  IF prev \in HostElements /\ ~(gone /\ prev # "body") THEN prev
  ELSE IF active \notin HostElements THEN "body" ELSE active

\* the listeners on overlay k
ListenersOn(k) == SelectSeq(closeListeners, LAMBDA c : c.on = k)

\* the exit animation of an overlay ends: the listener close() put on it runs
\* (lines 962-1015), on this.modal and the fields of this moment.  A second
\* listener on the same overlay throws at line 963, the overlay being gone.
AnimationEnd(tAfter, gone) ==
  /\ animating # 0
  /\ Len(ListenersOn(animating)) > 0
  /\ modal \in mounted
  /\ animating' = 0
  /\ teardowns' = teardowns + 1
  /\ zoomRun' = NoRun
  /\ mounted' = mounted \ {modal}
  /\ url' = ""
  /\ pageNum' = 1
  /\ pageNumPending' = 0
  /\ scale' = D_1_0
  /\ isDraggingHeader' = FALSE
  /\ offsetX' = 0
  /\ isDraggingScroll' = FALSE
  /\ startX' = 0
  /\ scrollLeft' = 0
  /\ canvas' = <<0, NoDouble>>
  /\ ui' = [ui EXCEPT !.preloaderShown = TRUE, !.zoomInfo = 100,
                      !.pageNumText = 0, !.pageCountText = 0,
                      !.prevDisabled = TRUE, !.nextDisabled = TRUE,
                      !.zoomInDisabled = TRUE, !.zoomOutDisabled = TRUE,
                      !.closedClass = FALSE]
  /\ activeElement' = FocusAfterClose(previousFocusedElement, activeElement, gone)
  /\ docs' = IF pdfDoc # 0
             THEN [docs EXCEPT ![pdfDoc].destroyed = @ + 1]
             ELSE docs
  /\ isOpening' = FALSE
  /\ isClosing' = FALSE
  /\ isDownloading' = FALSE
  /\ isPrinting' = FALSE
  /\ hookLog' = Logged(hookLog, ListenersOn(animating)[1].given, "onAfterClose",
                       ListenersOn(animating)[1].owner)
  /\ budget' = AfterThrow(budget, Threw(ListenersOn(animating)[1].given, tAfter))
  /\ UNCHANGED <<pdfDoc, pageRendering, previousFocusedElement, opts, modal>>
  \* line 994, and the overlay under the pointer is gone
  /\ styleLeft' = NoLeft
  /\ pointerAt' = "outside"
  /\ UNCHANGED <<wired, closeListeners, bodyScrollLeft, pointerX, pressed>>
  /\ UNCHANGED <<loads, renders, printTask, fetchTask>>
  /\ UNCHANGED <<opens, waiting, closes>>

(***************************************************************************)
(* The mouse on the overlay (lines 422-447, 853-894).  One axis is kept,   *)
(* the horizontal one: the code treats the vertical one the same way, line *)
(* by line.  The host page is not scrolled, so pageX and clientX agree.    *)
(***************************************************************************)
\* where the pointer can be: over the header of the content frame, over
\* #pdf-body, or anywhere else on the page
Regions == {"header", "body", "outside"}

\* offsetLeft of the overlay, which is fixed at the left edge of the window
modalOffsetLeft == 0

\* this.container.offsetLeft
offsetLeft(st) == IF st.set THEN st.px ELSE AutoLeft

\* what #pdf-body.scrollLeft holds after an assignment of v: the browser
\* keeps it within the scrollable range
ScrollTo(v) == IF v < 0 THEN 0 ELSE IF v > MaxScroll THEN MaxScroll ELSE v

\* a pan that follows the pointer without amplification
walkX_Plain(x) == (x - modalOffsetLeft) - startX

\* line 890
walkX(x) == ((x - modalOffsetLeft) - startX) * 2

\* startDragging(e): the values it leaves in the three fields
startDragging(x) ==
  /\ isDraggingScroll' = TRUE
  /\ startX' = x - modalOffsetLeft
  /\ scrollLeft' = bodyScrollLeft

\* stopDragging(): the value it leaves in the flag
stopDragging == FALSE

\* drag(e): the value it leaves in #pdf-body.scrollLeft
drag(x) ==
  IF ~isDraggingScroll THEN bodyScrollLeft
  ELSE ScrollTo(scrollLeft - walkX(x))

\* the header listeners exist when isMoveable was set, and hear the events
\* whose target is the header (lines 429-447)
HeaderHears(at) == wired.moveable /\ at = "header"

\* the button goes down where the pointer is
mousedown ==
  /\ pressed = "none"
  /\ pressed' = pointerAt
  /\ IF pointerAt = "body"
     THEN /\ startDragging(pointerX)
          /\ UNCHANGED <<isDraggingHeader, offsetX>>
     ELSE IF HeaderHears(pointerAt)
     THEN /\ isDraggingHeader' = TRUE
          /\ offsetX' = pointerX - offsetLeft(styleLeft)
          /\ UNCHANGED <<isDraggingScroll, startX, scrollLeft>>
     ELSE UNCHANGED <<isDraggingHeader, isDraggingScroll, startX, scrollLeft, offsetX>>
  /\ UNCHANGED <<url, pdfDoc, pageNum, pageRendering, pageNumPending, scale,
                 isOpening, isClosing, isDownloading, isPrinting,
                 previousFocusedElement, opts, modal>>
  /\ UNCHANGED <<dom, env, hist, pointerAt, pointerX>>

\* the pointer moves to x in region: mouseleave on #pdf-body when it goes
\* out of it, then mousemove on the element it is over
mousemove(region, x) ==
  /\ Shown
  /\ pointerAt' = region
  /\ pointerX' = x
  /\ LET left == pointerAt = "body" /\ region # "body"
         px   == x - offsetX
     IN  /\ isDraggingScroll' = IF left THEN stopDragging ELSE isDraggingScroll
         /\ bodyScrollLeft' = IF region = "body" THEN drag(x) ELSE bodyScrollLeft
         /\ IF HeaderHears(region) /\ isDraggingHeader
            THEN /\ px \in -MaxCoord..MaxCoord
                 /\ styleLeft' = [set |-> TRUE, px |-> px]
            ELSE UNCHANGED styleLeft
  /\ UNCHANGED <<url, pdfDoc, pageNum, pageRendering, pageNumPending, scale,
                 isOpening, isClosing, isDownloading, isPrinting,
                 isDraggingHeader, startX, scrollLeft, offsetX,
                 previousFocusedElement, opts, modal>>
  /\ UNCHANGED <<mounted, wired, ui, canvas, activeElement, closeListeners, animating>>
  /\ UNCHANGED <<env, hist, pressed>>

\* the button comes up where the pointer is
mouseup ==
  /\ pressed # "none"
  /\ pressed' = "none"
  /\ isDraggingScroll' = IF pointerAt = "body" THEN stopDragging ELSE isDraggingScroll
  /\ isDraggingHeader' = IF HeaderHears(pointerAt) THEN FALSE ELSE isDraggingHeader
  /\ UNCHANGED <<url, pdfDoc, pageNum, pageRendering, pageNumPending, scale,
                 isOpening, isClosing, isDownloading, isPrinting,
                 startX, scrollLeft, offsetX, previousFocusedElement, opts, modal>>
  /\ UNCHANGED <<dom, env, hist, pointerAt, pointerX>>

(***************************************************************************)
(* The keyboard and the mouse on the overlay (lines 449-473, 510-535).     *)
(* activeElement is "overlay" (the content frame, focused by open()), one  *)
(* of the buttons, or an element of the host page.                         *)
(***************************************************************************)
\* the buttons of the content frame in document order (lines 372-385): what
\* querySelectorAll() returns at line 511, disabled buttons included
Controls == <<"close", "prev", "next", "zoomOut", "zoomIn", "download", "print">>

firstFocusableElement == Controls[1]

lastFocusableElement == Controls[Len(Controls)]

\* the place of an element in the document: the content frame comes before
\* its buttons
Position(e) == IF e = "overlay" THEN 0 ELSE CHOOSE i \in 1..Len(Controls) : Controls[i] = e

\* the disabled attribute of a button
Disabled(u, c) ==
  CASE c = "prev" -> u.prevDisabled
    [] c = "next" -> u.nextDisabled
    [] c = "zoomOut" -> u.zoomOutDisabled
    [] c = "zoomIn" -> u.zoomInDisabled
    [] c = "download" -> u.downloadDisabled
    [] c = "print" -> u.printDisabled
    [] OTHER -> FALSE

\* c.focus(): a disabled button does not take the focus
Focused(u, c, active) == IF Disabled(u, c) THEN active ELSE c

\* a Tab or Shift+Tab the handler leaves to the browser: the focus goes to
\* the next or previous enabled button, and with none left in the overlay
\* to out, an element of the host page (the overlay is the last child of
\* the body, line 916)
TabNatively(u, e, shift, out) ==
  LET cand == {i \in 1..Len(Controls) :
                 /\ ~Disabled(u, Controls[i])
                 /\ IF shift THEN i < Position(e) ELSE i > Position(e)}
  IN  IF cand = {} THEN out
      ELSE Controls[CHOOSE i \in cand : \A j \in cand : IF shift THEN j <= i ELSE i <= j]

\* the keydown handler of trapFocus() (lines 516-534) and the browser after it
trapFocus(u, active, shift, out) ==
  IF shift /\ active = firstFocusableElement
  THEN Focused(u, lastFocusableElement, active)
  ELSE IF ~shift /\ active = lastFocusableElement
  THEN Focused(u, firstFocusableElement, active)
  ELSE TabNatively(u, active, shift, out)

Keys == {"Escape", "Tab", "Enter"}

\* a key goes down while the focus is in the overlay: the listeners of
\* this.container (line 516) and of this.modal (lines 451-459)
keydown(key, shift, out, tBefore) ==
  /\ Shown
  /\ activeElement \notin HostElements
  /\ CASE key = "Tab" ->
             /\ activeElement' = trapFocus(ui, activeElement, shift, out)
             /\ UNCHANGED <<fields, mouse, mounted, wired, bodyScrollLeft, styleLeft, ui, canvas, closeListeners, animating>>
             /\ UNCHANGED <<env, hist>>
       [] key = "Escape" ->
             IF wired.escape THEN close("escape", FALSE, tBefore) ELSE UNCHANGED vars
       [] OTHER -> UNCHANGED vars

\* where a click can land: the backdrop (this.modal itself), the content
\* frame, the close button in it
ClickTargets == {"backdrop", "content", "closeButton"}

\* a test that takes every click on the overlay for a click outside
BackdropHit_Anywhere(target) == TRUE

\* line 465: e.target === this.modal
BackdropHit(target) == target = "backdrop"

\* a click on the overlay: the listener of the close button (line 406) and
\* the click listener of this.modal (lines 464-472)
click(target, tBefore) ==
  /\ Shown
  /\ IF target = "closeButton" THEN close("button", FALSE, tBefore)
     ELSE IF wired.clickOutside /\ BackdropHit(target)
     THEN close("backdrop", FALSE, tBefore)
     ELSE UNCHANGED vars

(***************************************************************************)
(* The specification.                                                      *)
(***************************************************************************)
\* whether a hook called in the step throws
Throwing == IF budget.throws > 0 THEN BOOLEAN ELSE {FALSE}

Next ==
  \/ \E cfg \in Configs, u \in Urls, f \in HostElements, tB \in Throwing, tE \in Throwing :
        init(cfg, u, f, tB, tE)
  \/ \E l \in loads, n \in 1..MaxPages : LoadResolve(l, n)
  \/ \E l \in loads, tE \in Throwing : LoadReject(l, tE)
  \/ \E i \in 1..Len(renders) : GetPageResolve(i)
  \/ \E i \in 1..Len(renders), tA \in Throwing, tE \in Throwing : RenderResolve(i, tA, tE)
  \/ \E i \in 1..Len(renders), tE \in Throwing : RenderReject(i, tE)
  \/ \E n \in 1..MaxPages : queueRenderPage(n)
  \/ onPrevPage
  \/ onNextPage
  \/ onZoomIn
  \/ onZoomOut
  \/ onPrint
  \/ PrintSettle
  \/ onDownload
  \/ FetchSettle
  \/ \E src \in CloseSources, h \in BOOLEAN, tB \in Throwing : close(src, h, tB)
  \/ \E tA \in Throwing, gone \in BOOLEAN : AnimationEnd(tA, gone)

\* the controller as constructed, with the calls the bounds allow
Init ==
  /\ Constructed
  /\ budget = [opens |-> MaxOpens, ops |-> MaxOps, throws |-> 0, waits |-> 0,
                zooms |-> FALSE, flight |-> MaxOpens + MaxOps + 1]

Spec == Init /\ [][Next]_vars

\* the behaviours in which hooks throw
InitThrows ==
  /\ Constructed
  /\ budget = [opens |-> MaxOpens, ops |-> 1, throws |-> MaxThrows, waits |-> 0,
                zooms |-> FALSE, flight |-> MaxOpens + MaxOps + 1]

SpecThrows == InitThrows /\ [][Next]_vars

\* the behaviours in which the host waits on a call that returned early
InitCalls ==
  /\ Constructed
  /\ budget = [opens |-> MaxOpens, ops |-> 1, throws |-> 0, waits |-> 1,
                zooms |-> FALSE, flight |-> MaxOpens + MaxOps + 1]

SpecCalls == InitCalls /\ [][Next]_vars

\* the behaviours of a host that opens, zooms any number of times (waiting
\* for renders when MaxInFlight of them are outstanding) and closes
InitZoom ==
  /\ Constructed
  /\ budget = [opens |-> MaxOpens, ops |-> 0, throws |-> 0, waits |-> 0,
                zooms |-> TRUE, flight |-> MaxInFlight]

NextZoom ==
  \/ \E cfg \in Configs, u \in Urls : init(cfg, u, "body", FALSE, FALSE)
  \/ \E l \in loads, n \in 1..MaxPages : LoadResolve(l, n)
  \/ \E i \in 1..Len(renders) : GetPageResolve(i)
  \/ \E i \in 1..Len(renders) : RenderResolve(i, FALSE, FALSE)
  \/ onZoomIn
  \/ onZoomOut
  \/ close("button", FALSE, FALSE)
  \/ AnimationEnd(FALSE, FALSE)

SpecZoom == InitZoom /\ [][NextZoom]_vars

\* the behaviours of a host that opens, with a url or without one, prints,
\* downloads and closes
InitPrint ==
  /\ Constructed
  /\ budget = [opens |-> MaxOpens, ops |-> MaxOps, throws |-> 0, waits |-> 0,
                zooms |-> FALSE, flight |-> MaxInFlight]

NextPrint ==
  \/ \E cfg \in Configs, u \in AllUrls : init(cfg, u, "body", FALSE, FALSE)
  \/ \E l \in loads, n \in 1..MaxPages : LoadResolve(l, n)
  \/ \E l \in loads : LoadReject(l, FALSE)
  \/ \E i \in 1..Len(renders) : GetPageResolve(i)
  \/ \E i \in 1..Len(renders) : RenderResolve(i, FALSE, FALSE)
  \/ onPrint
  \/ PrintSettle
  \/ onDownload
  \/ FetchSettle
  \/ \E h \in BOOLEAN : close("api", h, FALSE)
  \/ AnimationEnd(FALSE, FALSE)

SpecPrint == InitPrint /\ [][NextPrint]_vars

\* the behaviours of a user at the keyboard and the mouse
InitKeys ==
  /\ Constructed
  /\ budget = [opens |-> MaxOpens, ops |-> 1, throws |-> 0, waits |-> 0,
                zooms |-> FALSE, flight |-> MaxInFlight]

NextKeys ==
  \/ \E cfg \in Configs, u \in Urls, f \in HostElements : init(cfg, u, f, FALSE, FALSE)
  \/ \E l \in loads, n \in 1..MaxPages : LoadResolve(l, n)
  \/ \E i \in 1..Len(renders) : GetPageResolve(i)
  \/ \E i \in 1..Len(renders) : RenderResolve(i, FALSE, FALSE)
  \/ onNextPage
  \/ onPrint
  \/ PrintSettle
  \/ \E key \in Keys, shift \in BOOLEAN, out \in HostElements : keydown(key, shift, out, FALSE)
  \/ \E target \in ClickTargets : click(target, FALSE)
  \/ AnimationEnd(FALSE, FALSE)

SpecKeys == InitKeys /\ [][NextKeys]_vars

\* the behaviours of a host that uses the controls of the overlay and the
\* methods init() and close() only: queueRenderPage() is called by the
\* handlers of the controls alone
NextControls ==
  \/ \E cfg \in Configs, u \in Urls, f \in HostElements : init(cfg, u, f, FALSE, FALSE)
  \/ \E l \in loads, n \in 1..MaxPages : LoadResolve(l, n)
  \/ \E l \in loads : LoadReject(l, FALSE)
  \/ \E i \in 1..Len(renders) : GetPageResolve(i)
  \/ \E i \in 1..Len(renders) : RenderResolve(i, FALSE, FALSE)
  \/ \E i \in 1..Len(renders) : RenderReject(i, FALSE)
  \/ onPrevPage
  \/ onNextPage
  \/ onZoomIn
  \/ onZoomOut
  \/ onPrint
  \/ PrintSettle
  \/ onDownload
  \/ FetchSettle
  \/ \E src \in CloseSources, h \in BOOLEAN : close(src, h, FALSE)
  \/ \E gone \in BOOLEAN : AnimationEnd(FALSE, gone)

SpecControls == Init /\ [][NextControls]_vars

\* the behaviours of a user who opens the viewer, works the mouse over it
\* and closes it
InitPointer ==
  /\ Constructed
  /\ budget = [opens |-> 1, ops |-> 0, throws |-> 0, waits |-> 0,
                zooms |-> FALSE, flight |-> MaxInFlight]

NextPointer ==
  \/ \E cfg \in Configs, u \in Urls : init(cfg, u, "body", FALSE, FALSE)
  \/ \E l \in loads, n \in 1..MaxPages : LoadResolve(l, n)
  \/ \E i \in 1..Len(renders) : GetPageResolve(i)
  \/ \E i \in 1..Len(renders) : RenderResolve(i, FALSE, FALSE)
  \/ mousedown
  \/ \E region \in Regions, x \in 0..MaxCoord : mousemove(region, x)
  \/ mouseup
  \/ close("api", FALSE, FALSE)
  \/ AnimationEnd(FALSE, FALSE)

SpecPointer == InitPointer /\ [][NextPointer]_vars

\* the engine settles one of its outstanding tasks: getDocument(), getPage()
\* or page.render()
EngineSettles ==
  \/ \E l \in loads, n \in 1..MaxPages : LoadResolve(l, n)
  \/ \E l \in loads, tE \in Throwing : LoadReject(l, tE)
  \/ \E i \in 1..Len(renders) : GetPageResolve(i)
  \/ \E i \in 1..Len(renders), tA \in Throwing, tE \in Throwing : RenderResolve(i, tA, tE)
  \/ \E i \in 1..Len(renders), tE \in Throwing : RenderReject(i, tE)

\* the exit animation of the overlay (0.2 s, style.css line 33) ends
AnimationEnds == \E tA \in Throwing, gone \in BOOLEAN : AnimationEnd(tA, gone)

\* the behaviours in which hooks may throw, the engine settles every task
\* it was given and every exit animation that runs comes to its end
SpecLive ==
  /\ InitThrows
  /\ [][Next]_vars
  /\ WF_vars(EngineSettles)
  /\ WF_vars(AnimationEnds)

(***************************************************************************)
(* Properties.                                                             *)
(***************************************************************************)
\* the state of the program: everything but the history
prog == <<fields, dom, env>>

\* nothing of the program and no record of an accepted call or hook changes
NoEffect == UNCHANGED <<prog, opens, hookLog, closes, teardowns, zoomRun>>

\* a load, a page render, a print or a download is outstanding
Busy == loads # {} \/ InFlight > 0 \/ printTask \/ fetchTask

AnyInit ==
  \E cfg \in Configs, u \in Urls, f \in HostElements, tB \in BOOLEAN, tE \in BOOLEAN :
    init(cfg, u, f, tB, tE)

AnyClose == \E src \in CloseSources, h \in BOOLEAN, tB \in BOOLEAN : close(src, h, tB)

AnyTeardown == \E tA \in BOOLEAN, gone \in BOOLEAN : AnimationEnd(tA, gone)

\* C1: at most one page render is in flight in every reachable state.
C1_AtMostOneRender == InFlight <= 1

\* C2: a render request issued while a render is in flight starts no render
\* of its own: queueRenderPage(p) puts p in the pending slot, so that only
\* the last of such requests is rendered once the render in flight completes.
C2_RequestsCoalesce ==
  [][/\ \A n \in 1..MaxPages :
          (queueRenderPage(n) /\ InFlight > 0) =>
            (renders' = renders /\ pageNumPending' = n)
     /\ ((onPrevPage \/ onNextPage \/ onZoomIn \/ onZoomOut) /\ InFlight > 0) =>
          renders' = renders]_vars

\* C3: init(config) called while the viewer is Opening or Open changes
\* nothing: no field, no option, no overlay, no focus capture, no hook.
C3_OpenWhileOpenIsNoop ==
  [][(AnyInit /\ isOpening /\ ~isClosing) => UNCHANGED vars]_vars

C3_Witness ==
  /\ Phase = "Opening"
  /\ modal \in mounted
  /\ opts = LockedOpts
  /\ previousFocusedElement = "link"

\* C4: an init() call issued during Closing is not dropped: the host that
\* saw it return is waiting only as long as the close is in progress, and
\* once the close has finished the open proceeds.
C4_OpenDuringCloseProceeds == (waiting = "open") => isClosing

\* C5: at most one overlay is mounted, and the teardown of a close runs on
\* the overlay that close was called on, never on the overlay, fields or
\* document of a later open.
C5_OneOverlayOwnTeardown ==
  [][/\ Cardinality(mounted') <= 1
     /\ AnyTeardown =>
          /\ animating = modal
          /\ \A l \in loads : l.sess <= modal
          /\ pdfDoc # 0 => docs[pdfDoc].sess <= modal]_vars

C5_Witness ==
  /\ teardowns = 1
  /\ modal = 2
  /\ mounted = {2}
  /\ isClosing

\* C6: close() while Closing or Closed, also before the first open, has no
\* effect at all: no state change, no second teardown, no hook.
C6_CloseIdempotent ==
  [][(AnyClose /\ (isClosing \/ ~isOpening)) => UNCHANGED vars]_vars

C6_Witness ==
  /\ Phase = "Closing"
  /\ closes = 1
  /\ animating = modal
  /\ Len(closeListeners) = 1

\* C7: close() is a no-op whenever a load, a page render, a print or a
\* download is in flight.
C7_CloseNoopWhileBusy == [][(AnyClose /\ Busy) => NoEffect]_vars

\* C8, as claimed: a close() that returned because an operation was in flight
\* is carried out once the operations have completed, without another call.
C8_CloseDeferred == (waiting = "close" /\ ~Busy) => (isClosing \/ ~isOpening)

\* C8, amended: a close() issued while the render guard (a load and its
\* first render), a print or a download is set is rejected outright, and
\* nothing is deferred: the viewer enters Closing only in the step of a
\* close() call that finds none of them set.
C8_CloseRejectedOutright ==
  [][/\ (AnyClose /\ CloseBlocked) => NoEffect
     /\ (~isClosing /\ isClosing') => (AnyClose /\ ~CloseRejected)]_vars

C8_Witness ==
  /\ waiting = "close"
  /\ ~Busy
  /\ Phase = "Open"
  /\ closes = 0

\* C9: while the phase is Closing the overlay of the accepted close is
\* mounted and its exit transition is running, and the teardown runs once
\* per accepted close, after the transition.
C9_ClosingThenOneTeardown ==
  /\ isClosing => (modal \in mounted /\ animating = modal)
  /\ teardowns = IF isClosing THEN closes - 1 ELSE closes

\* C10: whenever the phase is Closed after a close, the session holds its
\* defaults and the navigation and zoom controls are disabled.
C10_ClosedHoldsDefaults ==
  (Phase = "Closed" /\ teardowns > 0) =>
    /\ pageNum = 1
    /\ scale = D_1_0
    /\ pageNumPending = 0
    /\ ~isPrinting
    /\ ~isDownloading
    /\ ~isDraggingHeader
    /\ ~isDraggingScroll
    /\ url = ""
    /\ ui.prevDisabled
    /\ ui.nextDisabled
    /\ ui.zoomInDisabled
    /\ ui.zoomOutDisabled

\* the open that built overlay k has been closed: its teardown has run
SessionClosed(k) == k # 0 /\ k \notin mounted /\ (k < modal \/ ~isOpening)

\* the load of the current open has succeeded and its handle is the current one
LoadedHere == pdfDoc # 0 /\ docs[pdfDoc].sess = modal

\* pdfDoc.numPages of the current handle
pageCount == docs[pdfDoc].pages

AnyLoadResolve == \E l \in loads, n \in 1..MaxPages : LoadResolve(l, n)

\* C11: destroy() is called exactly once on every loaded handle, at the
\* close of the open that loaded it: never twice, and not zero times once
\* that open has been closed.
C11_DestroyedExactlyOnce ==
  \A h \in 1..Len(docs) :
    /\ docs[h].destroyed <= 1
    /\ SessionClosed(docs[h].sess) => docs[h].destroyed = 1

\* C12: the handle is null whenever the phase is Closed, and while the
\* viewer is open it is null or the handle loaded by the current open.
C12_HandleOwnedBySession ==
  /\ Phase = "Closed" => pdfDoc = 0
  /\ (isOpening /\ pdfDoc # 0) => docs[pdfDoc].sess = modal

\* C13: a successful load leaves pageNum = 1 and requests a render of page
\* 1; from then on 1 <= pageNum <= pageCount; onPrevPage at page 1 and
\* onNextPage at pageCount change nothing.
C13_PageWithinDocument ==
  [][/\ AnyLoadResolve =>
          /\ pageNum' = 1
          /\ renders'[Len(renders')].num = 1
     /\ (isOpening' /\ LoadedHere') => (pageNum' >= 1 /\ pageNum' <= pageCount')
     /\ (onPrevPage /\ pageNum = 1) => UNCHANGED vars
     /\ (onNextPage /\ LoadedHere /\ pageNum = pageCount) => UNCHANGED vars]_vars

\* an onZoomIn or onZoomOut call that passes its guards
AcceptedZoomIn == onZoomIn /\ ~NavRejected /\ DLess(scale, D_3_0)

AcceptedZoomOut == onZoomOut /\ ~NavRejected /\ DLess(D_0_5, scale)

\* the step has started a render of the current page
RenderRequested ==
  /\ Len(renders') = Len(renders) + 1
  /\ renders'[Len(renders')].num = pageNum
  /\ renders'[Len(renders')].stage = "getPage"

\* C14: the scale stays in [0.5, 3.0]; an accepted zoom moves it by one
\* step of 0.1 (ten points of the percentage shown) and requests a render
\* of the current page; onZoomIn at 3.0 and onZoomOut at 0.5 change nothing.
C14_ZoomStepsWithinClamps ==
  [][/\ ~DLess(scale', D_0_5)
     /\ ~DLess(D_3_0, scale')
     /\ AcceptedZoomIn => (Percent(scale') = Percent(scale) + 10 /\ RenderRequested)
     /\ AcceptedZoomOut => (Percent(scale') = Percent(scale) - 10 /\ RenderRequested)
     /\ (onZoomIn /\ scale = D_3_0) => UNCHANGED vars
     /\ (onZoomOut /\ scale = D_0_5) => UNCHANGED vars]_vars

\* C15, as claimed: eleven accepted onZoomIn calls from 1.0 give 3.0.
C15_ElevenZoomInsReachMax ==
  (zoomRun.kind = "in" /\ zoomRun.n = 11) => scale = D_3_0

\* C15, amended: eleven accepted onZoomIn calls from 1.0 give 2.1 (shown as
\* 210%); twenty give exactly 3.0, where the clamp and the guard stop the
\* scale: there is no twenty-first accepted call and the scale is never
\* above 3.0.
C15_TwentyZoomInsReachMax ==
  zoomRun.kind = "in" =>
    /\ zoomRun.n <= 20
    /\ Percent(scale) = 100 + 10 * zoomRun.n
    /\ zoomRun.n = 11 => (DLess(D_2_0, scale) /\ DLess(scale, D_3_0))
    /\ zoomRun.n = 20 => scale = D_3_0
    /\ ~DLess(D_3_0, scale)

C15_Witness ==
  /\ zoomRun = [kind |-> "in", n |-> 20]
  /\ scale = D_3_0
  /\ InFlight = 0
  /\ ui.zoomInDisabled
  /\ ui.zoomInfo = 300

\* C16: after five onZoomOut calls from 1.0, each after the render of the
\* one before, the scale reads 0.5 and, the last render done, the zoom-out
\* control is disabled and a sixth onZoomOut is not accepted.
C16_FiveZoomOutsReachMin ==
  zoomRun.kind = "out" =>
    /\ zoomRun.n <= 5
    /\ (zoomRun.n = 5 /\ InFlight = 0 /\ Phase = "Open") =>
         (ui.zoomInfo = 50 /\ ui.zoomOutDisabled)

\* the disabled state of the four controls is the one updateUI() computes
\* from the current page, page count and scale
AffordancesMatch ==
  /\ ui.prevDisabled <=> (pageNum = 1)
  /\ ui.nextDisabled <=> (pageNum = pageCount)
  /\ ui.zoomInDisabled <=> (scale = D_3_0)
  /\ ui.zoomOutDisabled <=> (scale = D_0_5)

\* C17: whenever the viewer is Open with its document loaded and no render
\* in flight, previous is disabled iff pageNum = 1, next iff pageNum =
\* pageCount, zoom-in iff scale = 3.0 and zoom-out iff scale = 0.5.
C17_AffordancesMatchPosition ==
  (Phase = "Open" /\ LoadedHere /\ InFlight = 0) => AffordancesMatch

\* C18: the teardown of a close puts the focus on the element that was
\* focused when the open of that session was accepted, or leaves it alone
\* when the host has removed that element, and completes either way; the
\* captured element changes only in an accepted init().
C18_FocusRestored ==
  [][/\ \A tA \in BOOLEAN, gone \in BOOLEAN :
          AnimationEnd(tA, gone) =>
            /\ activeElement' = IF gone /\ previousFocusedElement # "body"
                                THEN "body" ELSE previousFocusedElement
            /\ ~isOpening'
            /\ Phase' = "Closed"
     /\ previousFocusedElement' # previousFocusedElement => (AnyInit /\ ~isOpening)]_vars

C18_Witness ==
  /\ teardowns = 1
  /\ Phase = "Closed"
  /\ previousFocusedElement = "link"
  /\ activeElement = "link"

\* what the two queries return, against the lifecycle
QueriesReflectPhase ==
  /\ isClosed <=> ~isOpen
  /\ opens = 0 => ~isOpen
  /\ Shown => isOpen
  /\ isOpen <=> InitRejected
  /\ isOpen <=> Phase # "Closed"

\* C19: isOpen() and isClosed() are functions of the state with isClosed()
\* = not isOpen(); isOpen() is false before the first open and after every
\* completed close, true while an overlay is shown, and true exactly when
\* init() would return at once because the viewer is already open.
C19_QueriesArePhase ==
  /\ []QueriesReflectPhase
  /\ [][AnyTeardown => (~isOpen' /\ isClosed')]_vars

C19_Witness ==
  /\ Phase = "Closing"
  /\ Shown
  /\ isOpen
  /\ ~isClosed
  /\ InitRejected

\* the hooks invoked since the last accepted init(), by name
Invoked(log) == {log[i][1] : i \in 1..Len(log)}

\* C20: when the engine rejects the load, onError is invoked once and
\* onAfterOpen is not; the overlay stays mounted with the inline error and
\* no page; the viewer stays open with the render guard cleared, and a
\* close() is accepted from there.
C20_LoadErrorKeepsOpen ==
  [][\A l \in loads, tE \in BOOLEAN :
       LoadReject(l, tE) =>
         /\ hookLog' = Logged(hookLog, l.hooks, "onError", "config")
         /\ "onAfterOpen" \notin Invoked(hookLog')
         /\ modal \in mounted'
         /\ ui'.preloaderShown
         /\ ui'.preloaderText = "error"
         /\ canvas'[1] = 0
         /\ Phase' = "Open"
         /\ ~pageRendering'
         /\ ~CloseRejected']_vars

\* the hooks the step invokes: what it appends to the log
Added ==
  IF Len(hookLog') >= Len(hookLog) /\ SubSeq(hookLog', 1, Len(hookLog)) = hookLog
  THEN SubSeq(hookLog', Len(hookLog) + 1, Len(hookLog'))
  ELSE hookLog'

\* the pair of close hooks run last: who gave the onBeforeClose logged last
LastBeforeClose(log) ==
  LET at == {i \in 1..Len(log) : log[i][1] = "onBeforeClose"}
  IN  IF at = {} THEN "none" ELSE log[CHOOSE i \in at : \A j \in at : j <= i][2]

\* C21: the onBeforeClose/onAfterClose of the configuration are invoked
\* only by a close from the overlay (button, Escape, backdrop); close(hooks)
\* invokes only the hooks of that call, at the call and at its teardown, and
\* close() without hooks invokes none.
C21_CloseHooksByCaller ==
  [][/\ \A src \in CloseSources, h \in BOOLEAN, tB \in BOOLEAN :
          close(src, h, tB) =>
            Added \in (IF src # "api" THEN {<<>>, << <<"onBeforeClose", "config">> >>}
                       ELSE IF h THEN {<<>>, << <<"onBeforeClose", "call">> >>}
                       ELSE {<<>>})
     /\ AnyTeardown =>
          \/ Added = <<>>
          \/ Added = << <<"onAfterClose", LastBeforeClose(hookLog)>> >>]_vars

C21_Witness ==
  /\ teardowns = 1
  /\ Phase = "Closed"
  /\ wired.hooks
  /\ hookLog = << <<"onBeforeOpen", "config">>, <<"onAfterOpen", "config">> >>

\* the place of a lifecycle hook in a session, 0 for onError
HookRank(name) ==
  CASE name = "onBeforeOpen" -> 1
    [] name = "onAfterOpen" -> 2
    [] name = "onBeforeClose" -> 3
    [] name = "onAfterClose" -> 4
    [] OTHER -> 0

\* the lifecycle hooks of the log are in order, each at most once
InOrder(log) ==
  \A i, j \in 1..Len(log) :
    (i < j /\ HookRank(log[i][1]) # 0 /\ HookRank(log[j][1]) # 0) =>
      HookRank(log[i][1]) < HookRank(log[j][1])

\* the step invokes the hook called name
Invokes(name) == \E i \in 1..Len(Added) : Added[i][1] = name

\* C22: the lifecycle hooks fire in order and at most once per accepted
\* transition: onBeforeOpen in an accepted init() before its overlay is
\* mounted, onAfterOpen once the document is loaded and the first page
\* drawn, onBeforeClose in an accepted close() before Closing, onAfterClose
\* at the end of the teardown with the phase Closed.
C22_HooksAtTheirEdge ==
  /\ []InOrder(hookLog)
  /\ [][/\ Invokes("onBeforeOpen") => (AnyInit /\ ~isOpening /\ modal' \notin mounted)
        /\ Invokes("onAfterOpen") => (Phase' = "Open" /\ LoadedHere' /\ canvas'[1] # 0)
        /\ Invokes("onBeforeClose") => (AnyClose /\ ~CloseRejected /\ ~isClosing /\ isClosing')
        /\ Invokes("onAfterClose") => (AnyTeardown /\ Phase' = "Closed")]_vars

\* C23: after a hook has thrown the viewer is not stuck: it never reports
\* open with no overlay mounted, and while it is Closing the exit animation
\* of its overlay is running with the teardown listening for its end.
C23_HookThrowNeverSticks ==
  /\ isOpen => Shown
  /\ isClosing => (animating = modal /\ Len(ListenersOn(modal)) > 0)

\* C24: printing and downloading are never both set and never both under
\* way, and a print or download trigger while either flag is set or while
\* the phase is Closing starts nothing and changes nothing.
C24_PrintDownloadExclusive ==
  /\ [](~(isPrinting /\ isDownloading) /\ ~(printTask /\ fetchTask))
  /\ [][((onPrint \/ onDownload) /\ (isPrinting \/ isDownloading \/ isClosing)) =>
          UNCHANGED vars]_vars

C24_Witness ==
  /\ Shown
  /\ isPrinting
  /\ printTask
  /\ ~fetchTask
  /\ opts.isDownloadingOnClick
  /\ ~pageRendering
  /\ ~isClosing

\* C25: a busy flag is set only while its operation is outstanding: every
\* way the operation ends, a synchronous exception of the print pipeline
\* included, clears the flag and enables the button again.
C25_FlagsFollowOperations ==
  /\ []((isPrinting => printTask) /\ (isDownloading => fetchTask))
  /\ [][/\ PrintSettle => (~isPrinting' /\ ~ui'.printDisabled)
        /\ FetchSettle => (~isDownloading' /\ ~ui'.downloadDisabled)]_vars

\* C26: with isPrintingOnClick (isDownloadingOnClick) off, the print
\* (download) trigger changes nothing; the options in force are those of
\* the last accepted init() and change in no other step.
C26_DisabledOptionIsNoop ==
  [][/\ (onPrint /\ ~opts.isPrintingOnClick) => UNCHANGED vars
     /\ (onDownload /\ ~opts.isDownloadingOnClick) => UNCHANGED vars
     /\ \A cfg \in Configs, u \in AllUrls :
          (init(cfg, u, "body", FALSE, FALSE) /\ ~isOpening) => opts' = cfg.opts
     /\ opts' # opts =>
          (~isOpening /\ \E cfg \in Configs, u \in AllUrls : init(cfg, u, "body", FALSE, FALSE))]_vars

C26_Witness ==
  /\ opens = 2
  /\ opts = LockedOpts
  /\ Phase = "Open"
  /\ Shown
  /\ ~BusyRejected
  /\ ui.printDisabled
  /\ ui.downloadDisabled

\* the step starts a close: its hook runs or the phase becomes Closing
StartsClose == (~isClosing /\ isClosing') \/ Invokes("onBeforeClose")

\* C27: a key press starts a close only if the key is Escape and
\* isClosingOnEscape is on; a click only if it is on the close button, or on
\* the backdrop itself with isClosingOnClickOutside on, never inside the
\* content frame; with both options off only the close button or a call of
\* close() by the host closes the viewer.
C27_CloseTriggersByOption ==
  [][/\ \A key \in Keys, shift \in BOOLEAN, out \in HostElements :
          (keydown(key, shift, out, FALSE) /\ StartsClose) =>
            (key = "Escape" /\ opts.isClosingOnEscape)
     /\ \A target \in ClickTargets :
          (click(target, FALSE) /\ StartsClose) =>
            \/ target = "closeButton"
            \/ target = "backdrop" /\ opts.isClosingOnClickOutside
     /\ (~opts.isClosingOnEscape /\ ~opts.isClosingOnClickOutside /\ StartsClose) =>
          \/ click("closeButton", FALSE)
          \/ \E h \in BOOLEAN : close("api", h, FALSE)]_vars

C27_Witness ==
  /\ teardowns = 1
  /\ opens = 2
  /\ opts = LockedOpts
  /\ ~wired.escape
  /\ ~wired.clickOutside
  /\ Phase = "Open"
  /\ ~CloseRejected
  /\ activeElement = "overlay"

\* C28: while the overlay is mounted no Tab or Shift+Tab moves the focus
\* out of it: Tab on the last button goes to the first, Shift+Tab on the
\* first to the last, whatever buttons are disabled.
C28_FocusStaysInOverlay ==
  [][\A shift \in BOOLEAN, out \in HostElements :
       keydown("Tab", shift, out, FALSE) =>
         /\ activeElement' \notin HostElements
         /\ (~shift /\ activeElement = lastFocusableElement) =>
              activeElement' = firstFocusableElement
         /\ (shift /\ activeElement = firstFocusableElement) =>
              activeElement' = lastFocusableElement]_vars

\* C29: pageRendering is true in every state in which a renderPage() call
\* has started and not completed.
C29_FlagWhileRendering == InFlight > 0 => pageRendering

\* C30: onPrevPage, onNextPage, onZoomIn and onZoomOut called while a page
\* render is in flight are dropped: the page, the scale and the pending
\* slot stay as they are and no render is started, then or later.
C30_NavDroppedWhileRendering ==
  [][((onPrevPage \/ onNextPage \/ onZoomIn \/ onZoomOut) /\ InFlight > 0) => NoEffect]_vars

\* C31: no page render is outstanding while printing or downloading is set:
\* neither starts during a render and no render starts during either.
C31_NoRenderWhilePrinting == InFlight > 0 => (~isPrinting /\ ~isDownloading)

\* C32: a rejected getPage or page render, of the first render of a load or
\* of one that navigation or zoom asked for, invokes onError when hooks are
\* configured, and once no load and no other render is outstanding
\* pageRendering is false.
C32_RenderErrorSurfaced ==
  [][\A i \in 1..Len(renders), tE \in BOOLEAN :
       RenderReject(i, tE) =>
         /\ wired.hooks => Invokes("onError")
         /\ (loads' = {} /\ InFlight' = 0) => ~pageRendering']_vars

AnyCall ==
  \/ onPrevPage \/ onNextPage \/ onZoomIn \/ onZoomOut
  \/ onPrint \/ onDownload
  \/ AnyClose \/ AnyInit

\* C36: while the load and the first render of an open are outstanding,
\* navigation, zoom, print, download, close() and init() change nothing and
\* start nothing.
C36_NothingAcceptedWhileOpening ==
  [][(Phase = "Opening" /\ AnyCall) => NoEffect]_vars

\* C38: during Closing the navigation and zoom handlers change neither the
\* page nor the scale and start no render, and no render is outstanding
\* when the teardown runs.
C38_NoRenderWhileClosing ==
  [][/\ (isClosing /\ (onPrevPage \/ onNextPage \/ onZoomIn \/ onZoomOut)) => NoEffect
     /\ AnyTeardown => InFlight = 0]_vars

\* C39: no getPage() or page.render() is outstanding on a handle on which
\* destroy() has been called: none is started after it and none begun
\* before is left.
C39_NoUseAfterRelease ==
  \A i \in 1..Len(renders) : docs[renders[i].doc].destroyed = 0

\* C40: whenever the viewer is Open with its document loaded and no render
\* outstanding, the page number shown and the page and scale on the surface
\* are pageNum and scale.
C40_ShownIsCurrent ==
  (Phase = "Open" /\ LoadedHere /\ InFlight = 0 /\ canvas[1] # 0) =>
    /\ ui.pageNumText = pageNum
    /\ canvas = <<pageNum, scale>>

\* C37: in every state reached through the controls of the overlay, init()
\* and close(), the pending slot is empty: no handler reaches
\* queueRenderPage() while pageRendering is set.
C37_PendingSlotEmpty == pageNumPending = 0

\* the first render of a document of several pages is under way with the
\* flag set: the state in which a click on next would go to the slot
C37_Witness ==
  /\ Shown /\ LoadedHere /\ pageCount > 1
  /\ pageRendering /\ InFlight > 0
  /\ pageNum < pageCount
  /\ pageNumPending = 0

\* C33: with the engine settling its tasks and the exit animation ending,
\* a viewer in Opening leaves that phase and a viewer in Closing reaches
\* Closed.
C33_TransientPhasesEnd ==
  /\ (Phase = "Opening") ~> (Phase # "Opening")
  /\ (Phase = "Closing") ~> (Phase = "Closed")

\* the pointer goes to x in some region
AnyMove == \E region \in Regions, x \in 0..MaxCoord : mousemove(region, x)

\* the pointer goes out of #pdf-body
LeavesBody == AnyMove /\ pointerAt = "body" /\ pointerAt' # "body"

\* the pointer goes to a place in #pdf-body
MovesInBody == AnyMove /\ pointerAt' = "body"

\* the frame of a pan: a press on #pdf-body records the pointer and the
\* scroll offset, a release and the pointer going out of #pdf-body end the
\* gesture, and a move outside a gesture leaves the scroll offset alone
PanFrame ==
  /\ (mousedown /\ pointerAt = "body") =>
       (isDraggingScroll' /\ startX' = pointerX /\ scrollLeft' = bodyScrollLeft)
  /\ (mouseup \/ LeavesBody) => ~isDraggingScroll'
  /\ (AnyMove /\ ~(isDraggingScroll /\ pointerAt' = "body")) =>
       bodyScrollLeft' = bodyScrollLeft

\* v, limited to the scrollable range of #pdf-body
Within(v) == IF v < 0 THEN 0 ELSE IF v > MaxScroll THEN MaxScroll ELSE v

\* C34, as claimed: a press on #pdf-body records the pointer and the scroll
\* offset; every move of the gesture sets the scroll offset to
\* origin - 2 * (pointer - pointer origin); release and leaving end the
\* gesture; other moves leave the scroll offset unchanged.
C34_PanSetsScroll ==
  [][/\ PanFrame
     /\ (MovesInBody /\ isDraggingScroll) =>
          bodyScrollLeft' = scrollLeft - 2 * (pointerX' - startX)]_vars

\* C34, amended: as claimed, with the scroll offset of a move limited to
\* the scrollable range: 0 when origin - 2 * (pointer - pointer origin) is
\* negative, the largest offset when it is beyond it.
C34_PanSetsScrollInRange ==
  [][/\ PanFrame
     /\ (MovesInBody /\ isDraggingScroll) =>
          bodyScrollLeft' = Within(scrollLeft - 2 * (pointerX' - startX))]_vars

\* a second pan, begun at a scroll offset the first one left, has moved the
\* content by twice the way of the pointer
C34_Witness ==
  /\ isDraggingScroll /\ pressed = "body" /\ pointerAt = "body"
  /\ scrollLeft > 0
  /\ pointerX > startX
  /\ bodyScrollLeft = scrollLeft - 2 * (pointerX - startX)

\* C35: no mouse event changes the position of the content frame unless
\* isMoveable is set and the button, pressed on the header, is still down,
\* and then a move puts the frame at pointer - offset; the two gestures are
\* never active together.
C35_FrameMovesInHeaderGestureOnly ==
  /\ [](~(isDraggingHeader /\ isDraggingScroll))
  /\ [][(mousedown \/ mouseup \/ AnyMove) =>
          \/ styleLeft' = styleLeft
          \/ /\ AnyMove
             /\ wired.moveable
             /\ pressed = "header"
             /\ styleLeft' = [set |-> TRUE, px |-> pointerX' - offsetX]]_vars

=============================================================================
